---- MODULE Spec2Model ----
(***************************************************************************)
(* eval_model of GOT/demo/run_ocr_2.0.py as a state machine.               *)
(*                                                                         *)
(* Text is a sequence of symbols.  A symbol is one character ("a", " ",    *)
(* ";", "(", ...) or one of the markers the code searches for, kept whole  *)
(* ("**kern", "\begin{tikzpicture}", "\left", the stop string, ...).  No   *)
(* one-character symbol used here occurs in a way that could spell a       *)
(* marker, so "marker in text" is "the marker symbol occurs in the text".  *)
(* The generator never emits text after its stop string, so the stop       *)
(* string occurs only as the last symbol of a decoded text.                *)
(***************************************************************************)
EXTENDS Integers, Sequences, FiniteSets, TLC

VARIABLES
  pc,         \* the block of eval_model about to run, "done" or "aborted"
  args,       \* the parsed command line: type, box, color, render
  w, h,       \* image.size
  bbox,       \* the evaluated box, normalized in place
  qs,         \* the instruction: image block, prefix, task instruction
  decoded,    \* tokenizer.decode(...) of the generated ids
  outputs,    \* the text being post-processed
  ocrFile,    \* ocr_output.txt
  gt,         \* the text spliced into the template
  template,   \* the template file as the renderer found it
  demoHtml,   \* ./results/demo.html
  error,      \* the exception that ended the run, and the block that raised it
  ran,        \* the renderer branches entered, in order
  htmlWrites  \* how many times ./results/demo.html was written

vars == <<pc, args, w, h, bbox, qs, decoded, outputs, ocrFile, gt, template,
          demoHtml, error, ran, htmlWrites>>

\* ---------------------------------------------------------------- bounds
MaxText == 4
MaxTikz == 5
MaxMmd == 4
MaxTmpl == 2
MaxBoxLen == 4
MaxCoord == 3
MaxDim == 3

\* ------------------------------------------------------------- constants
image_token_len == 256
GridSize == 1000

KERN == "**kern"
BEGIN_TIKZ == "\\begin{tikzpicture}"
END_TIKZ == "\\end{tikzpicture}"
LEFT == "\\left"
RIGHT == "\\right"
MARKER == "const text ="
stop_str == "<|im_end|>"
SP == " "
NL == "\n"
DQUOTE == "\""
BACKTICKS == "<backtick><backtick>"
ESC_NL == "\\n"
FULLWIDTH_SEMI == "fullwidth;"

\* ------------------------------------------------------- string helpers
Last(s) == s[Len(s)]

Front(s) == SubSeq(s, 1, Len(s) - 1)

SeqsUpTo(A, n) == UNION {[1..k -> A] : k \in 0..n}

\* "tok in s"
Contains(s, tok) == \E i \in 1..Len(s) : s[i] = tok

\* s.count(tok)
Count(s, tok) == Cardinality({i \in 1..Len(s) : s[i] = tok})

RECURSIVE LStrip(_)
LStrip(s) ==
  IF s # <<>> /\ Head(s) \in {SP, NL} THEN LStrip(Tail(s)) ELSE s

RECURSIVE RStrip(_)
RStrip(s) ==
  IF s # <<>> /\ Last(s) \in {SP, NL} THEN RStrip(Front(s)) ELSE s

\* s.strip()
PyStrip(s) == RStrip(LStrip(s))

RECURSIVE Split(_, _)
\* s.split(sep), sep one symbol
Split(s, sep) ==
  IF ~Contains(s, sep) THEN <<s>>
  ELSE LET i == CHOOSE j \in 1..Len(s) :
                  s[j] = sep /\ \A k \in 1..(j - 1) : s[k] # sep
       IN  <<SubSeq(s, 1, i - 1)>> \o Split(SubSeq(s, i + 1, Len(s)), sep)

RECURSIVE Replace2(_, _, _)
\* s.replace(m + d, d): left to right, resuming after each match
Replace2(s, m, d) ==
  IF Len(s) < 2 THEN s
  ELSE IF s[1] = m /\ s[2] = d
       THEN <<d>> \o Replace2(SubSeq(s, 3, Len(s)), m, d)
       ELSE <<s[1]>> \o Replace2(Tail(s), m, d)

RECURSIVE Concat(_)
\* "".join(ss)
Concat(ss) == IF ss = <<>> THEN <<>> ELSE Head(ss) \o Concat(Tail(ss))

\* ----------------------------------------------------------------- files
Absent == [exists |-> FALSE, text |-> <<>>]

FileOf(t) == [exists |-> TRUE, text |-> t]

NoError == [kind |-> "none", at |-> "none"]

\* ------------------------------------------------------- box and prompt
NoBox == [given |-> FALSE, val |-> <<>>]

BoxOf(b) == [given |-> TRUE, val |-> b]

NoPrefix == [kind |-> "none", box |-> <<>>, color |-> ""]

\* Scale rounding to the nearest integer instead of truncating
Scale_Round(c, dim) == (2 * c * GridSize + dim) \div (2 * dim)

\* int(c / dim * 1000) for c >= 0, dim > 0: the double c / dim * 1000
\* truncates to the floor of 1000c/dim for every c and dim used here
Scale(c, dim) == (c * GridSize) \div dim

\* c / 0 raises ZeroDivisionError
DivisionRaises(b, iw, ih) == Len(b) \in {2, 4} /\ (iw = 0 \/ ih = 0)

\* bbox[0], bbox[2] by the width, bbox[1], bbox[3] by the height
Normalize(b, iw, ih) ==
  IF Len(b) \in {2, 4}
  THEN [i \in 1..Len(b) |->
          IF i % 2 = 1 THEN Scale(b[i], iw) ELSE Scale(b[i], ih)]
  ELSE b

BaseInstr(type) == IF type = "format" THEN "OCR with format: " ELSE "OCR: "

\* str(bbox) + " " + instruction
BoxPrompt(b, type) ==
  [imgpad |-> 0, prefix |-> [kind |-> "box", box |-> b, color |-> ""],
   instr |-> BaseInstr(type)]

\* "[" + color + "] " + instruction
ColorPrompt(c, type) ==
  [imgpad |-> 0, prefix |-> [kind |-> "color", box |-> <<>>, color |-> c],
   instr |-> BaseInstr(type)]

\* ------------------------------------------------------- post-processing
StripStop(s) == IF s # <<>> /\ Last(s) = stop_str THEN Front(s) ELSE s

Decode(d) == PyStrip(StripStop(PyStrip(d)))

\* -- Structured-Markup renderer
\* DelimRepair without the test of the two counts
DelimRepair_Always(s) ==
  LET s1 == Replace2(Replace2(s, LEFT, "("), RIGHT, ")")
      s2 == Replace2(Replace2(s1, LEFT, "["), RIGHT, "]")
      s3 == Replace2(Replace2(s2, LEFT, "{"), RIGHT, "}")
      s4 == Replace2(Replace2(s3, LEFT, "|"), RIGHT, "|")
  IN  Replace2(Replace2(s4, LEFT, "."), RIGHT, ".")

\* the five replace lines, applied when the counts differ
DelimRepair(s) ==
  IF Count(s, RIGHT) # Count(s, LEFT)
  THEN LET s1 == Replace2(Replace2(s, LEFT, "("), RIGHT, ")")
           s2 == Replace2(Replace2(s1, LEFT, "["), RIGHT, "]")
           s3 == Replace2(Replace2(s2, LEFT, "{"), RIGHT, "}")
           s4 == Replace2(Replace2(s3, LEFT, "|"), RIGHT, "|")
       IN  Replace2(Replace2(s4, LEFT, "."), RIGHT, ".")
  ELSE s

\* replace('"', "``").replace("$", "")
QuoteDollar(s) ==
  SelectSeq([i \in 1..Len(s) |-> IF s[i] = DQUOTE THEN BACKTICKS ELSE s[i]],
            LAMBDA t : t # "$")

\* out.replace("\\", "\\\\") on one symbol
EscTok(t) ==
  CASE t = LEFT -> "\\\\left"
    [] t = RIGHT -> "\\\\right"
    [] t = BEGIN_TIKZ -> "\\\\begin{tikzpicture}"
    [] t = END_TIKZ -> "\\\\end{tikzpicture}"
    [] OTHER -> t

JsLine(out) ==
  <<DQUOTE>> \o [i \in 1..Len(out) |-> EscTok(out[i])]
             \o <<ESC_NL, DQUOTE, "+", NL>>

\* the "+"-joined string literals, without the last "+\n"
MmdGt(s) ==
  LET outputs_list == Split(s, NL)
      all == Concat([i \in 1..Len(outputs_list) |-> JsLine(outputs_list[i])])
  IN  SubSeq(all, 1, Len(all) - 2)

\* -- Diagram renderer
\* outputs.translate(translation_table)
Translate(s) ==
  [i \in 1..Len(s) |-> IF s[i] = FULLWIDTH_SEMI THEN ";" ELSE s[i]]

IsDelimLine(out) == Contains(out, BEGIN_TIKZ) \/ Contains(out, END_TIKZ)

Raised == [ok |-> FALSE, val |-> <<>>]

Ok(v) == [ok |-> TRUE, val |-> v]

RECURSIVE WhileStrip(_)
\* while out[-1] == " ": out = out[:-1]   (out[-1] of "" raises IndexError)
WhileStrip(out) ==
  IF out = <<>> THEN Raised
  ELSE IF Last(out) = SP THEN WhileStrip(Front(out)) ELSE Ok(out)

\* EmitLine that never appends the ";"
EmitLine_NoSemicolon(out) ==
  IF out # <<>>
  THEN IF ~IsDelimLine(out)
       THEN LET st == WhileStrip(out)
            IN  IF ~st.ok THEN Raised ELSE Ok(st.val \o <<NL>>)
       ELSE Ok(out \o <<NL>>)
  ELSE Ok(<<>>)

\* what one line adds to gt; every symbol that ends a non-delimiter line
\* is one character, so out[:-1] drops the last symbol
EmitLine(out) ==
  IF out # <<>>
  THEN IF ~IsDelimLine(out)
       THEN LET st == WhileStrip(out)
            IN  IF ~st.ok THEN Raised
                ELSE IF st.val # <<>>
                     THEN IF Last(st.val) # ";"
                          THEN Ok(Front(st.val) \o <<";", NL>>)
                          ELSE Ok(st.val \o <<NL>>)
                     ELSE Ok(<<>>)
       ELSE Ok(out \o <<NL>>)
  ELSE Ok(<<>>)

TikzGt(s) ==
  LET outputs_list == Split(s, NL)
      emitted == [i \in 1..Len(outputs_list) |-> EmitLine(outputs_list[i])]
  IN  IF \E i \in 1..Len(emitted) : ~emitted[i].ok THEN Raised
      ELSE Ok(Concat([i \in 1..Len(emitted) |-> emitted[i].val]))

\* -- template splice
\* lines = read().split("const text ="); lines[1] needs two pieces
SpliceRaises(tmpl) == Len(Split(tmpl, MARKER)) < 2

MmdSpliceText(tmpl, g) ==
  LET lines == Split(tmpl, MARKER)
  IN  lines[1] \o <<MARKER>> \o g \o lines[2]

TikzSpliceText(tmpl, g) ==
  LET lines == Split(tmpl, MARKER)
  IN  lines[1] \o g \o lines[2]

\* -- Music renderer
Svgs == {<<"<svg>">>, <<"<svg>", "overflow=\"inherit\"">>}

\* svg.replace('overflow="inherit"', 'overflow="visible"')
PatchSvg(svg) ==
  [i \in 1..Len(svg) |->
     IF svg[i] = "overflow=\"inherit\"" THEN "overflow=\"visible\"" ELSE svg[i]]

\* svg_to_html(svg, "./results/demo.html")
SvgToHtml(svg) == <<"<html>">> \o svg

\* ---------------------------------------------------------------- inputs
Stale == FileOf(<<"stale">>)

Coords == 0..MaxCoord

Dims == {0, MaxDim - 1, MaxDim}

WithStop(B) == B \cup {b \o <<stop_str>> : b \in B}

\* one text for each renderer and each branch of the pipeline
BaseTexts ==
  { <<"a", SP, stop_str>>,
    <<KERN, NL, "a", stop_str>>,
    <<BEGIN_TIKZ, NL, "a", SP, NL, "a", ";", NL, END_TIKZ, stop_str>>,
    <<"$", "a", LEFT, "(", "a", DQUOTE, NL, "a", "$", stop_str>> }

BaseTmpls == {Absent, FileOf(<<"h">>), FileOf(<<"h", MARKER, "t">>)}

BaseBoxes == {NoBox, BoxOf(<<1, 2>>)}

DefaultTexts ==
  WithStop(SeqsUpTo({"a", SP, NL, KERN, BEGIN_TIKZ}, MaxText)) \cup BaseTexts

DefaultTmpls ==
  {Absent} \cup {FileOf(t) : t \in SeqsUpTo({"h", MARKER}, MaxTmpl)}

TikzTexts ==
  {<<BEGIN_TIKZ, NL>> \o b :
     b \in SeqsUpTo({"a", ";", SP, NL, FULLWIDTH_SEMI}, MaxTikz)}
  \cup BaseTexts

MmdTexts ==
  SeqsUpTo({LEFT, RIGHT, "(", ")", "[", "]", "{", "}", "|", ".", "a"}, MaxMmd)
  \cup BaseTexts

AllBoxes == {NoBox} \cup {BoxOf(b) : b \in SeqsUpTo(Coords, MaxBoxLen)}

\* ------------------------------------------------------------------ Init
InitWith(Types, Boxes, Colors, Renders, Ds, Files) ==
  /\ pc = "instr"
  /\ args \in [type : Types, box : Boxes, color : Colors, render : Renders]
  /\ w \in Ds
  /\ h \in Ds
  /\ bbox = <<>>
  /\ qs = [imgpad |-> 0, prefix |-> NoPrefix, instr |-> ""]
  /\ decoded = <<>>
  /\ outputs = <<>>
  /\ ocrFile \in Files
  /\ demoHtml = ocrFile
  /\ gt = <<>>
  /\ template = Absent
  /\ error = NoError
  /\ ran = <<>>
  /\ htmlWrites = 0

Init ==
  InitWith({"format", "ocr"}, BaseBoxes, {"", "red"}, BOOLEAN, {MaxDim},
           {Absent, Stale})

InitBox ==
  InitWith({"format", "ocr"}, AllBoxes, {"", "red"}, {TRUE}, Dims, {Absent})

InitText ==
  InitWith({"format"}, {NoBox}, {""}, {TRUE}, {MaxDim}, {Absent})

\* --------------------------------------------------------------- actions
Abort(kind) ==
  /\ pc' = "aborted"
  /\ error' = [kind |-> kind, at |-> pc]

\* lines 66-69
TaskInstr ==
  /\ pc = "instr"
  /\ qs' = [imgpad |-> 0, prefix |-> NoPrefix, instr |-> BaseInstr(args.type)]
  /\ pc' = "box"
  /\ UNCHANGED <<args, w, h, bbox, decoded, outputs, ocrFile, gt, template,
                 demoHtml, error, ran, htmlWrites>>

\* BoxStep with the length check the code does not have
BoxStep_RejectsBadLength ==
  /\ pc = "box"
  /\ IF ~args.box.given
     THEN /\ pc' = "color"
          /\ UNCHANGED <<bbox, qs, error>>
     ELSE IF Len(args.box.val) \notin {2, 4} \/ w = 0 \/ h = 0
          THEN /\ Abort("InvalidInput")
               /\ UNCHANGED <<bbox, qs>>
          ELSE /\ bbox' = Normalize(args.box.val, w, h)
               /\ qs' = BoxPrompt(bbox', args.type)
               /\ pc' = "color"
               /\ UNCHANGED error
  /\ UNCHANGED <<args, w, h, decoded, outputs, ocrFile, gt, template,
                 demoHtml, ran, htmlWrites>>

\* lines 71-84
BoxStep ==
  /\ pc = "box"
  /\ IF ~args.box.given
     THEN /\ pc' = "color"
          /\ UNCHANGED <<bbox, qs, error>>
     ELSE IF DivisionRaises(args.box.val, w, h)
          THEN /\ Abort("ZeroDivisionError")
               /\ UNCHANGED <<bbox, qs>>
          ELSE /\ bbox' = Normalize(args.box.val, w, h)
               /\ qs' = BoxPrompt(bbox', args.type)
               /\ pc' = "color"
               /\ UNCHANGED error
  /\ UNCHANGED <<args, w, h, decoded, outputs, ocrFile, gt, template,
                 demoHtml, ran, htmlWrites>>

\* ColorStep as the "elif" of the box test
ColorStep_Elif ==
  /\ pc = "color"
  /\ qs' = IF args.color # "" /\ ~args.box.given
           THEN ColorPrompt(args.color, args.type) ELSE qs
  /\ pc' = "wrap"
  /\ UNCHANGED <<args, w, h, bbox, decoded, outputs, ocrFile, gt, template,
                 demoHtml, error, ran, htmlWrites>>

\* lines 86-90
ColorStep ==
  /\ pc = "color"
  /\ qs' = IF args.color # "" THEN ColorPrompt(args.color, args.type) ELSE qs
  /\ pc' = "wrap"
  /\ UNCHANGED <<args, w, h, bbox, decoded, outputs, ocrFile, gt, template,
                 demoHtml, error, ran, htmlWrites>>

\* lines 92-108
WrapPrompt ==
  /\ pc = "wrap"
  /\ qs' = [qs EXCEPT !.imgpad = image_token_len]
  /\ pc' = "generate"
  /\ UNCHANGED <<args, w, h, bbox, decoded, outputs, ocrFile, gt, template,
                 demoHtml, error, ran, htmlWrites>>

\* lines 111-137
Generate(Texts) ==
  /\ pc = "generate"
  /\ \E d \in Texts :
       /\ decoded' = d
       /\ outputs' = Decode(d)
  /\ pc' = "write"
  /\ UNCHANGED <<args, w, h, bbox, qs, ocrFile, gt, template, demoHtml,
                 error, ran, htmlWrites>>

\* WriteOcr writing the text as it was before the stop string was cut
WriteOcr_BeforeStopStrip ==
  /\ pc = "write"
  /\ ocrFile' = FileOf(PyStrip(decoded))
  /\ pc' = "render"
  /\ UNCHANGED <<args, w, h, bbox, qs, decoded, outputs, gt, template,
                 demoHtml, error, ran, htmlWrites>>

\* lines 139-140
WriteOcr ==
  /\ pc = "write"
  /\ ocrFile' = FileOf(outputs)
  /\ pc' = "render"
  /\ UNCHANGED <<args, w, h, bbox, qs, decoded, outputs, gt, template,
                 demoHtml, error, ran, htmlWrites>>

\* lines 142-144
RenderGate ==
  /\ pc = "render"
  /\ pc' = IF ~args.render THEN "done"
           ELSE IF Contains(outputs, KERN) THEN "music" ELSE "dispatch"
  /\ UNCHANGED <<args, w, h, bbox, qs, decoded, outputs, ocrFile, gt,
                 template, demoHtml, error, ran, htmlWrites>>

\* lines 145-165
Music ==
  /\ pc = "music"
  /\ ran' = Append(ran, "music")
  /\ \E svg \in Svgs : demoHtml' = FileOf(SvgToHtml(PatchSvg(svg)))
  /\ htmlWrites' = htmlWrites + 1
  /\ pc' = "dispatch"
  /\ UNCHANGED <<args, w, h, bbox, qs, decoded, outputs, ocrFile, gt,
                 template, error>>

\* Dispatch without the '"**kern" not in outputs' test
Dispatch_NoKernTest ==
  /\ pc = "dispatch"
  /\ IF args.type = "format"
     THEN IF ~Contains(outputs, BEGIN_TIKZ)
          THEN /\ pc' = "mmd_repair"
               /\ ran' = Append(ran, "mmd")
          ELSE /\ pc' = "tikz_format"
               /\ ran' = Append(ran, "tikz")
     ELSE /\ pc' = "done"
          /\ UNCHANGED ran
  /\ UNCHANGED <<args, w, h, bbox, qs, decoded, outputs, ocrFile, gt,
                 template, demoHtml, error, htmlWrites>>

\* lines 167-168, 197
Dispatch ==
  /\ pc = "dispatch"
  /\ IF args.type = "format" /\ ~Contains(outputs, KERN)
     THEN IF ~Contains(outputs, BEGIN_TIKZ)
          THEN /\ pc' = "mmd_repair"
               /\ ran' = Append(ran, "mmd")
          ELSE /\ pc' = "tikz_format"
               /\ ran' = Append(ran, "tikz")
     ELSE /\ pc' = "done"
          /\ UNCHANGED ran
  /\ UNCHANGED <<args, w, h, bbox, qs, decoded, outputs, ocrFile, gt,
                 template, demoHtml, error, htmlWrites>>

\* lines 171-179
MmdRepair ==
  /\ pc = "mmd_repair"
  /\ outputs' = DelimRepair(outputs)
  /\ pc' = "mmd_escape"
  /\ UNCHANGED <<args, w, h, bbox, qs, decoded, ocrFile, gt, template,
                 demoHtml, error, ran, htmlWrites>>

\* lines 181-187
MmdEscape ==
  /\ pc = "mmd_escape"
  /\ outputs' = QuoteDollar(outputs)
  /\ gt' = MmdGt(outputs')
  /\ pc' = "mmd_splice"
  /\ UNCHANGED <<args, w, h, bbox, qs, decoded, ocrFile, template, demoHtml,
                 error, ran, htmlWrites>>

\* MmdSplice that writes what it has when the marker is absent
MmdSplice_Silent(Tmpls) ==
  /\ pc = "mmd_splice"
  /\ \E t \in Tmpls :
       /\ template' = t
       /\ IF ~t.exists
          THEN /\ Abort("FileNotFoundError")
               /\ UNCHANGED <<demoHtml, htmlWrites>>
          ELSE /\ demoHtml' =
                    FileOf(IF SpliceRaises(t.text)
                           THEN t.text \o <<MARKER>> \o gt
                           ELSE MmdSpliceText(t.text, gt))
               /\ htmlWrites' = htmlWrites + 1
               /\ pc' = "done"
               /\ UNCHANGED error
  /\ UNCHANGED <<args, w, h, bbox, qs, decoded, outputs, ocrFile, gt, ran>>

\* lines 189-195
MmdSplice(Tmpls) ==
  /\ pc = "mmd_splice"
  /\ \E t \in Tmpls :
       /\ template' = t
       /\ IF ~t.exists
          THEN /\ Abort("FileNotFoundError")
               /\ UNCHANGED <<demoHtml, htmlWrites>>
          ELSE IF SpliceRaises(t.text)
               THEN /\ Abort("IndexError")
                    /\ UNCHANGED <<demoHtml, htmlWrites>>
               ELSE /\ demoHtml' = FileOf(MmdSpliceText(t.text, gt))
                    /\ htmlWrites' = htmlWrites + 1
                    /\ pc' = "done"
                    /\ UNCHANGED error
  /\ UNCHANGED <<args, w, h, bbox, qs, decoded, outputs, ocrFile, gt, ran>>

\* lines 200-219
TikzFormat ==
  /\ pc = "tikz_format"
  /\ outputs' = Translate(outputs)
  /\ LET r == TikzGt(outputs')
     IN  IF ~r.ok
         THEN /\ Abort("IndexError")
              /\ UNCHANGED gt
         ELSE /\ gt' = r.val
              /\ pc' = "tikz_splice"
              /\ UNCHANGED error
  /\ UNCHANGED <<args, w, h, bbox, qs, decoded, ocrFile, template, demoHtml,
                 ran, htmlWrites>>

\* lines 221-227
TikzSplice(Tmpls) ==
  /\ pc = "tikz_splice"
  /\ \E t \in Tmpls :
       /\ template' = t
       /\ IF ~t.exists
          THEN /\ Abort("FileNotFoundError")
               /\ UNCHANGED <<demoHtml, htmlWrites>>
          ELSE IF SpliceRaises(t.text)
               THEN /\ Abort("IndexError")
                    /\ UNCHANGED <<demoHtml, htmlWrites>>
               ELSE /\ demoHtml' = FileOf(TikzSpliceText(t.text, gt))
                    /\ htmlWrites' = htmlWrites + 1
                    /\ pc' = "done"
                    /\ UNCHANGED error
  /\ UNCHANGED <<args, w, h, bbox, qs, decoded, outputs, ocrFile, gt, ran>>

NextWith(Texts, Tmpls) ==
  \/ TaskInstr
  \/ BoxStep
  \/ ColorStep
  \/ WrapPrompt
  \/ Generate(Texts)
  \/ WriteOcr
  \/ RenderGate
  \/ Music
  \/ Dispatch
  \/ MmdRepair
  \/ MmdEscape
  \/ MmdSplice(Tmpls)
  \/ TikzFormat
  \/ TikzSplice(Tmpls)

Next == NextWith(DefaultTexts, DefaultTmpls)

NextBox == NextWith(BaseTexts, BaseTmpls)

NextTikz == NextWith(TikzTexts, BaseTmpls)

NextMmd == NextWith(MmdTexts, BaseTmpls)

\* every prompt, a few texts
Spec == Init /\ [][Next]_vars

\* every box and image size, a few texts
SpecBox == InitBox /\ [][NextBox]_vars

\* diagram texts
SpecTikz == InitText /\ [][NextTikz]_vars

\* structured-markup texts
SpecMmd == InitText /\ [][NextMmd]_vars

\* ================================================================ claims
AbortedAt(stage) == pc = "aborted" /\ error.at = stage

RenderStages ==
  {"render", "music", "dispatch", "mmd_repair", "mmd_escape", "mmd_splice",
   "tikz_format", "tikz_splice"}

\* the box block has run to its end
PastBox == pc \notin {"instr", "box"} /\ ~AbortedAt("box")

\* the color block has run: qs is the instruction of the prompt
PromptBuilt == PastBox /\ pc # "color"

\* ocr_output.txt has been written
Written == pc \in RenderStages \cup {"done"} \/ (pc = "aborted" /\ error.at \in RenderStages)

\* the run is over and reached the render test
Finished == pc = "done" \/ (pc = "aborted" /\ error.at \in RenderStages)

BothGiven == args.box.given /\ args.color # ""

BoxPrefix == [kind |-> "box", box |-> bbox, color |-> ""]

ColorPrefix == [kind |-> "color", box |-> <<>>, color |-> args.color]

\* ---- C1
\* C1 (as stated): once the prompt is built, a run given both a box and a
\* color carries the box prefix, and the color prefix appears only when no
\* box is given.
C1_BoxPrefixWins ==
  PromptBuilt =>
    /\ BothGiven => qs.prefix = BoxPrefix
    /\ qs.prefix.kind = "color" => ~args.box.given

\* C1 (amended): once the prompt is built the instruction is one prefix
\* followed by the task instruction; given both a box and a color the prefix
\* is the color prefix "[color] ", and the box prefix appears only when no
\* color is given.
C1_ColorPrefixWins ==
  PromptBuilt =>
    /\ qs.instr = (IF args.type = "format" THEN "OCR with format: " ELSE "OCR: ")
    /\ BothGiven => qs.prefix = ColorPrefix
    /\ args.color # "" => qs.prefix = ColorPrefix
    /\ qs.prefix.kind = "box" => (args.box.given /\ args.color = "")
    /\ (args.box.given /\ args.color = "") => qs.prefix = BoxPrefix
    /\ (~args.box.given /\ args.color = "") => qs.prefix = NoPrefix

C1_Witness ==
  /\ PromptBuilt
  /\ BothGiven
  /\ Len(bbox) = 2
  /\ bbox # args.box.val
  /\ qs.prefix.kind = "color"

\* ---- C6
BadBox == Len(args.box.val) \notin {2, 4} \/ w = 0 \/ h = 0

\* C6 (as stated): a box whose length is not 2 or 4, or a zero image width or
\* height, aborts the run in the box block, and no box of another length
\* reaches the prompt.
C6_BadBoxRejected ==
  /\ (args.box.given /\ BadBox) => (pc \in {"instr", "box"} \/ AbortedAt("box"))
  /\ qs.prefix.kind = "box" => Len(qs.prefix.box) \in {2, 4}

\* C6 (amended): the box block fails only by dividing by zero, which happens
\* exactly when the box has 2 or 4 elements and the width or height is zero;
\* a box of any other length is never rejected and goes into the prompt
\* prefix as given, whatever the image size.
C6_OnlyDivisionRejects ==
  /\ AbortedAt("box") =>
       /\ error.kind = "ZeroDivisionError"
       /\ args.box.given
       /\ Len(args.box.val) \in {2, 4}
       /\ (w = 0 \/ h = 0)
  /\ (PastBox /\ args.box.given /\ Len(args.box.val) \in {2, 4}) =>
       (w # 0 /\ h # 0)
  /\ (pc = "color" /\ args.box.given /\ Len(args.box.val) \notin {2, 4}) =>
       /\ bbox = args.box.val
       /\ qs.prefix = [kind |-> "box", box |-> args.box.val, color |-> ""]

C6_Witness ==
  /\ pc = "color"
  /\ args.box.given
  /\ Len(args.box.val) = 3
  /\ w = 0
  /\ qs.prefix.kind = "box"

\* ---- C7
InBounds ==
  /\ args.box.given
  /\ Len(args.box.val) \in {2, 4}
  /\ w > 0
  /\ h > 0
  /\ \A i \in 1..Len(args.box.val) :
       /\ args.box.val[i] >= 0
       /\ args.box.val[i] <= (IF i % 2 = 1 THEN w ELSE h)

\* q is the floor of c / dim * 1000
IsFloorOf(q, c, dim) == q * dim <= c * 1000 /\ c * 1000 < (q + 1) * dim

\* C7: for a box of 2 or 4 coordinates inside the image, the normalized box
\* has the length of the input, every coordinate is in 0..1000, the
\* coordinates at indices 0 and 2 are floor(x / width * 1000) and those at
\* indices 1 and 3 are floor(y / height * 1000).
C7_NormalizedInGrid ==
  (PastBox /\ InBounds) =>
    /\ Len(bbox) = Len(args.box.val)
    /\ \A i \in 1..Len(bbox) :
         /\ bbox[i] \in 0..1000
         /\ IsFloorOf(bbox[i], args.box.val[i], IF i % 2 = 1 THEN w ELSE h)

C7_Witness ==
  /\ PastBox
  /\ InBounds
  /\ Len(bbox) = 4
  /\ w # h
  /\ \E i \in 1..4 : bbox[i] * (IF i % 2 = 1 THEN w ELSE h) # args.box.val[i] * 1000

\* ---- C2
\* C2: from the write on (through every renderer step, however the run
\* ends, for every task type, rendering or not) ocr_output.txt holds the
\* whole stop-stripped, trimmed text, and no renderer has started, written
\* demo.html or built its text before that.
C2_OcrFileKeepsFullText ==
  /\ Written => ocrFile = FileOf(PyStrip(StripStop(PyStrip(decoded))))
  /\ (ran # <<>> \/ htmlWrites > 0 \/ gt # <<>>) => Written

C2_Witness ==
  /\ pc = "aborted"
  /\ error.at = "mmd_splice"
  /\ Last(decoded) = stop_str
  /\ outputs # ocrFile.text
  /\ ocrFile.text # <<>>

\* ---- C3
Text == PyStrip(StripStop(PyStrip(decoded)))

\* the renderer the text and the task type select
Selected ==
  IF Contains(Text, KERN) THEN <<"music">>
  ELSE IF args.type = "format"
       THEN IF Contains(Text, BEGIN_TIKZ) THEN <<"tikz">> ELSE <<"mmd">>
       ELSE <<>>

\* C3 (as stated): at most one renderer runs and demo.html is written at
\* most once; the one that runs is the one the text and the task type
\* select.
C3_DispatchByTextAlone ==
  /\ Len(ran) <= 1
  /\ htmlWrites <= 1
  /\ Finished => ran = Selected

\* C3 (amended): at most one renderer runs and demo.html is written at most
\* once; when rendering is requested the renderer that runs is the one the
\* text and the task type select, and when it is not requested no renderer
\* runs.
C3_DispatchWhenRendering ==
  /\ Len(ran) <= 1
  /\ htmlWrites <= 1
  /\ Finished => ran = (IF args.render THEN Selected ELSE <<>>)

C3_Witness ==
  /\ pc = "done"
  /\ args.render
  /\ args.type = "format"
  /\ Contains(Text, KERN)
  /\ Contains(Text, BEGIN_TIKZ)
  /\ ran = <<"music">>
  /\ htmlWrites = 1

\* ---- C10
SpliceDone ==
  \/ pc = "done" /\ ran \in {<<"mmd">>, <<"tikz">>}
  \/ AbortedAt("mmd_splice")
  \/ AbortedAt("tikz_splice")

HtmlNotWritten == htmlWrites = 0 /\ demoHtml \in {Absent, Stale}

\* C10 (as stated): a missing template fails with an I/O error and leaves
\* demo.html unwritten; a template without the marker raises nothing and
\* demo.html is written.
C10_MarkerAbsentSilent ==
  SpliceDone =>
    /\ ~template.exists => (error.kind = "FileNotFoundError" /\ HtmlNotWritten)
    /\ (template.exists /\ ~Contains(template.text, MARKER)) =>
         (error = NoError /\ htmlWrites = 1 /\ demoHtml.exists)

\* C10 (amended): a missing template fails with an I/O error and leaves
\* demo.html unwritten; a template without the marker fails with an
\* IndexError (lines[1] of a one-piece split) and leaves demo.html unwritten
\* too; only a template with the marker gets demo.html written.
C10_MarkerAbsentRaises ==
  SpliceDone =>
    /\ ~template.exists => (error.kind = "FileNotFoundError" /\ HtmlNotWritten)
    /\ (template.exists /\ ~Contains(template.text, MARKER)) =>
         (error.kind = "IndexError" /\ HtmlNotWritten)
    /\ (template.exists /\ Contains(template.text, MARKER)) =>
         (error = NoError /\ htmlWrites = 1 /\ demoHtml.exists)

C10_Witness ==
  /\ AbortedAt("tikz_splice")
  /\ template.exists
  /\ template.text # <<>>
  /\ ~Contains(template.text, MARKER)
  /\ error.kind = "IndexError"

\* ---- C4, C5, C9
\* the lines of gt, each ended by its newline
GtLines == Front(Split(gt, NL))

\* gt is whole lines
GtEndsLine == gt = <<>> \/ Last(gt) = NL

\* the lines the Diagram renderer loops over
TikzInput == Split(Translate(Text), NL)

SpaceOnly(out) == out # <<>> /\ \A i \in 1..Len(out) : out[i] = SP

RECURSIVE TrimSpaces(_)
TrimSpaces(out) ==
  IF out # <<>> /\ Last(out) = SP THEN TrimSpaces(Front(out)) ELSE out

\* what C9 says a line adds to the output
ClaimedLine(out) ==
  IF out = <<>> \/ SpaceOnly(out) THEN <<>>
  ELSE IF IsDelimLine(out) THEN out \o <<NL>>
  ELSE IF Last(TrimSpaces(out)) = ";" THEN TrimSpaces(out) \o <<NL>>
  ELSE TrimSpaces(out) \o <<";", NL>>

\* the Diagram renderer has built its text
TikzBuilt == ran = <<"tikz">> /\ (pc \in {"tikz_splice", "done"} \/ AbortedAt("tikz_splice"))

\* C4 (as stated): every output line of the Diagram renderer is ended by one
\* newline, and each one that is not a delimiter line ends with exactly one
\* ";", never with ";;".
C4_ExactlyOneSemicolon ==
  TikzBuilt =>
    /\ GtEndsLine
    /\ \A i \in 1..Len(GtLines) :
         /\ GtLines[i] # <<>>
         /\ ~IsDelimLine(GtLines[i]) =>
              /\ Last(GtLines[i]) = ";"
              /\ Len(GtLines[i]) >= 2 => GtLines[i][Len(GtLines[i]) - 1] # ";"

\* C4 (amended): every output line of the Diagram renderer is non-empty and
\* ended by exactly one newline, and each one that is not a delimiter line
\* ends with ";": with at least one, since the ";" an input line already
\* ends with are all kept.
C4_EndsWithSemicolon ==
  TikzBuilt =>
    /\ GtEndsLine
    /\ \A i \in 1..Len(GtLines) :
         /\ GtLines[i] # <<>>
         /\ ~IsDelimLine(GtLines[i]) => Last(GtLines[i]) = ";"

C4_Witness ==
  /\ TikzBuilt
  /\ \E i \in 1..Len(TikzInput) :
       /\ Len(TikzInput[i]) >= 2
       /\ ~IsDelimLine(TikzInput[i])
       /\ Last(TikzInput[i]) = ";"
       /\ TikzInput[i][Len(TikzInput[i]) - 1] = ";"
  /\ \E i \in 1..Len(GtLines) :
       /\ Len(GtLines[i]) >= 2
       /\ ~IsDelimLine(GtLines[i])

\* C5 (as stated): a line of only spaces raises nothing in the Diagram
\* renderer: it adds nothing to the output and the lines after it are
\* processed.
C5_SpaceLineNoError ==
  (ran = <<"tikz">> /\ pc # "tikz_format"
     /\ \E i \in 1..Len(TikzInput) : SpaceOnly(TikzInput[i])) =>
    /\ ~AbortedAt("tikz_format")
    /\ gt = Concat([i \in 1..Len(TikzInput) |-> ClaimedLine(TikzInput[i])])

\* C9 (as stated): a line that is neither empty nor a delimiter line, with
\* its trailing spaces stripped, is emitted whole, followed by ";" when it
\* does not end with one, and by a newline.
C9_AppendsSemicolon ==
  TikzBuilt =>
    gt = Concat([i \in 1..Len(TikzInput) |-> ClaimedLine(TikzInput[i])])

\* ---- C8
Macros == {LEFT, RIGHT}

Delims == {"(", ")", "[", "]", "{", "}", "|", "."}

\* the pairs the five replace lines name
Paired(m, d) ==
  \/ m = LEFT /\ d \in {"(", "[", "{", "|", "."}
  \/ m = RIGHT /\ d \in {")", "]", "}", "|", "."}

NonMacros(s) == SelectSeq(s, LAMBDA t : t \notin Macros)

\* the position in s of its k-th symbol that is not a macro
KthPos(s, k) ==
  CHOOSE i \in 1..Len(s) :
    /\ s[i] \notin Macros
    /\ Cardinality({j \in 1..i : s[j] \notin Macros}) = k

\* the macros right before the k-th symbol of s that is not a macro
RunBefore(s, k) ==
  SubSeq(s, (IF k = 1 THEN 0 ELSE KthPos(s, k - 1)) + 1, KthPos(s, k) - 1)

\* the macros after the last symbol of s that is not a macro
RunAfter(s) ==
  LET n == Len(NonMacros(s))
  IN  SubSeq(s, (IF n = 0 THEN 0 ELSE KthPos(s, n)) + 1, Len(s))

Balanced(s) == Count(s, LEFT) = Count(s, RIGHT)

\* the delimiter-repair step has just run on Text
Repaired == pc = "mmd_escape"

\* C8 (as stated): with equal counts the step leaves the text unchanged; with
\* different counts every macro followed by one of ( ) [ ] { } | . is gone
\* and its delimiter stays.
C8_EveryMacroReplaced ==
  Repaired =>
    /\ Balanced(Text) => outputs = Text
    /\ ~Balanced(Text) =>
         /\ NonMacros(outputs) = NonMacros(Text)
         /\ \A k \in 1..Len(NonMacros(Text)) :
              (RunBefore(Text, k) # <<>> /\ Text[KthPos(Text, k)] \in Delims) =>
                Len(RunBefore(outputs, k)) < Len(RunBefore(Text, k))

\* C8 (amended): with equal counts the step leaves the text unchanged; with
\* different counts every "\left" followed by one of ( [ { | . and every
\* "\right" followed by one of ) ] } | . is gone and its delimiter stays,
\* while a macro followed by anything else (a "\left" before a closing
\* delimiter, a "\right" before an opening one) stays in place with the
\* macros before it; no other symbol is touched.
C8_PairedMacrosReplaced ==
  Repaired =>
    /\ Balanced(Text) => outputs = Text
    /\ ~Balanced(Text) =>
         /\ NonMacros(outputs) = NonMacros(Text)
         /\ RunAfter(outputs) = RunAfter(Text)
         /\ \A k \in 1..Len(NonMacros(Text)) :
              LET run == RunBefore(Text, k)
                  d == Text[KthPos(Text, k)]
              IN  /\ (run # <<>> /\ Paired(Last(run), d)) =>
                       Len(RunBefore(outputs, k)) < Len(run)
                  /\ (run # <<>> /\ ~Paired(Last(run), d)) =>
                       RunBefore(outputs, k) = run

C8_Witness ==
  /\ Repaired
  /\ ~Balanced(Text)
  /\ Contains(Text, RIGHT)
  /\ Len(outputs) = Len(Text) - 1
  /\ Contains(outputs, RIGHT)

====
